---- MODULE Spec2Model ----
(***************************************************************************)
(* Model of the phishing/spam scoring service: the /predict handler of     *)
(* app.py and the services it calls (header_auth, url_intel, homograph,    *)
(* heuristics, model_service).                                             *)
(*                                                                         *)
(* Text is a sequence of tokens.  A token is a run of characters that all  *)
(* belong to the same character classes of the regular expressions of the  *)
(* program, so that a match on the characters is a match on the tokens:    *)
(* the separators " ", "\t", "\n", "<", ">", "@", ":", "=", ".", ";", "\"",*)
(* "/", "?", "://" are tokens of their own, every other token is a word.   *)
(*                                                                         *)
(* Probabilities, risks and weights are exact decimals counted in          *)
(* millionths (One = 1.0); every input used is a multiple of 0.0001, so    *)
(* that a product with a weight given in hundredths is exact.              *)
(***************************************************************************)
EXTENDS Integers, Sequences, FiniteSets, TLC

VARIABLES
  db,        \* the rows of the table predictions, in the order of their ids
  lstmSeen,  \* the classifier is a function of its input: what it returned for each
  calls,     \* history: the inputs and the verdict of every call of predict that returned
  response,  \* what the last request was answered with
  computed,  \* the values the last call of predict computed on its way
  arg,       \* the arguments of the function a run applies
  ret,       \* what that function returned
  imports,      \* whois_tls: which optional modules were imported
  _WHOIS_CACHE, \* whois_tls: registrable domain -> [age_days]
  threads,      \* where each thread is in get_domain_age_days, and its locals
  queries,      \* the domains whois.whois was called with, in order
  returned      \* the calls of get_domain_age_days that returned, in order

whoisvars == <<imports, _WHOIS_CACHE, threads, queries, returned>>

vars == <<db, lstmSeen, calls, response, computed, arg, ret, whoisvars>>

(***************************************************************************)
(* Strings: the str methods the program uses, on token sequences.          *)
(***************************************************************************)
SP  == " "
TAB == "\t"
NL  == "\n"

\* str.isspace() characters that occur in the inputs
Whitespace == {SP, TAB, NL}

\* the separator tokens: every token outside this set is made of \w and "-"
Separators == Whitespace \cup {"<", ">", "@", ":", "=", ".", ";", "\"", "/", "?", "://"}

\* str.lower(), per token: the tokens with an upper-case letter
LowerPairs ==
  {<<"From", "from">>,
   <<"FROM", "from">>,
   <<"Authentication-Results", "authentication-results">>,
   <<"ARC-Authentication-Results", "arc-authentication-results">>,
   <<"Received-SPF", "received-spf">>,
   <<"SPF", "spf">>,
   <<"Pass", "pass">>,
   <<"Fail", "fail">>,
   <<"Google", "google">>,
   <<"PayPal", "paypal">>,
   <<"Support", "support">>,
   <<"Bob", "bob">>,
   <<"Congratulations", "congratulations">>,
   <<"HTTP", "http">>,
   <<"X-Note", "x-note">>,
   <<"Subject", "subject">>,
   <<"To", "to">>,
   <<"XN--80ak6aa92e", "xn--80ak6aa92e">>,
   <<"URL_TOKEN", "url_token">>,
   <<"EMAIL_TOKEN", "email_token">>}

LowerTable == [t \in {p[1] : p \in LowerPairs} |-> (CHOOSE p \in LowerPairs : p[1] = t)[2]]

LowerTok(t) == IF t \in DOMAIN LowerTable THEN LowerTable[t] ELSE t

Lower(s) == [i \in 1..Len(s) |-> LowerTok(s[i])]

RECURSIVE LStrip(_)
LStrip(s) == IF s # <<>> /\ Head(s) \in Whitespace THEN LStrip(Tail(s)) ELSE s

RECURSIVE RStrip(_)
RStrip(s) ==
  IF s # <<>> /\ s[Len(s)] \in Whitespace THEN RStrip(SubSeq(s, 1, Len(s) - 1)) ELSE s

Strip(s) == LStrip(RStrip(s))

\* sep.join(parts)
RECURSIVE Join(_, _)
Join(parts, sep) ==
  IF parts = <<>> THEN <<>>
  ELSE IF Len(parts) = 1 THEN parts[1]
  ELSE parts[1] \o sep \o Join(Tail(parts), sep)

\* pat in s
Contains(s, pat) ==
  \E i \in 1..(Len(s) - Len(pat) + 1) : SubSeq(s, i, i + Len(pat) - 1) = pat

\* s.endswith(suffix)
EndsWith(s, suffix) ==
  /\ Len(suffix) <= Len(s)
  /\ SubSeq(s, Len(s) - Len(suffix) + 1, Len(s)) = suffix

\* index of the first occurrence of token t in s, 0 when there is none
RECURSIVE IndexFrom(_, _, _)
IndexFrom(s, t, i) ==
  IF i > Len(s) THEN 0 ELSE IF s[i] = t THEN i ELSE IndexFrom(s, t, i + 1)

IndexOf(s, t) == IndexFrom(s, t, 1)

\* s.split(sep): the pieces between the occurrences of the token sep
RECURSIVE Split(_, _)
Split(s, sep) ==
  LET i == IndexOf(s, sep)
  IN IF i = 0 THEN <<s>>
     ELSE <<SubSeq(s, 1, i - 1)>> \o Split(SubSeq(s, i + 1, Len(s)), sep)

\* str.splitlines(): no line for the empty text, none after a final line break
SplitLines(s) ==
  IF s = <<>> THEN <<>>
  ELSE IF s[Len(s)] = NL THEN Split(SubSeq(s, 1, Len(s) - 1), NL)
  ELSE Split(s, NL)

(***************************************************************************)
(* Regular expressions (module re, flag IGNORECASE): a pattern is a        *)
(* sequence of items, each a character class with a quantifier and the     *)
(* number of the group it captures (0: none).  A class is a set of         *)
(* lower-case tokens, or the complement of one.  Matching is Python's:     *)
(* leftmost start, greedy quantifiers, backtracking in priority order.     *)
(***************************************************************************)
Lit(t)        == [neg |-> FALSE, set |-> {t}, q |-> "one", grp |-> 0]
Cls(S, q, g)  == [neg |-> FALSE, set |-> S, q |-> q, grp |-> g]
NotCls(S, q, g) == [neg |-> TRUE, set |-> S, q |-> q, grp |-> g]

NoMatch == [ok |-> FALSE, end |-> 0, caps |-> <<>>]

TokMatches(item, t) == (LowerTok(t) \in item.set) # item.neg

\* the longest run of tokens from pos on that the item's class accepts
RECURSIVE RunLen(_, _, _)
RunLen(item, txt, pos) ==
  IF pos <= Len(txt) /\ TokMatches(item, txt[pos])
  THEN 1 + RunLen(item, txt, pos + 1) ELSE 0

RECURSIVE MatchAt(_, _, _, _)
RECURSIVE TryCount(_, _, _, _, _, _)

\* item k takes c tokens, then c - 1, ... down to lo, until the rest matches
TryCount(re, k, txt, pos, c, lo) ==
  IF c < lo THEN NoMatch
  ELSE LET r == MatchAt(re, k + 1, txt, pos + c)
       IN IF r.ok
          THEN IF re[k].grp = 0 THEN r
               ELSE [r EXCEPT !.caps =
                       (re[k].grp :> SubSeq(txt, pos, pos + c - 1)) @@ r.caps]
          ELSE TryCount(re, k, txt, pos, c - 1, lo)

\* re.match of the items k.. of the pattern at position pos
MatchAt(re, k, txt, pos) ==
  IF k > Len(re) THEN [ok |-> TRUE, end |-> pos, caps |-> <<>>]
  ELSE LET item == re[k]
           run  == RunLen(item, txt, pos)
           lo   == IF item.q \in {"one", "plus"} THEN 1 ELSE 0
           hi   == IF item.q \in {"one", "opt"}
                   THEN (IF run > 0 THEN 1 ELSE 0) ELSE run
       IN TryCount(re, k, txt, pos, hi, lo)

\* re.search from position pos on
RECURSIVE SearchFrom(_, _, _)
SearchFrom(re, txt, pos) ==
  IF pos > Len(txt) + 1 THEN NoMatch
  ELSE LET r == MatchAt(re, 1, txt, pos)
       IN IF r.ok THEN r ELSE SearchFrom(re, txt, pos + 1)

Search(re, txt) == SearchFrom(re, txt, 1)

(***************************************************************************)
(* services/header_auth.py                                                 *)
(***************************************************************************)
\* Python's None
None == <<>>

\* line.startswith((' ', '\t'))
StartsWithBlank(line) == line # <<>> /\ line[1] \in {SP, TAB}

\* the loop of _unfold_headers over the lines left, unfolded being the list so far
RECURSIVE UnfoldLoop(_, _)
UnfoldLoop(lines, unfolded) ==
  IF lines = <<>> THEN unfolded
  ELSE LET line == Head(lines)
           n    == Len(unfolded)
       IN IF StartsWithBlank(line) /\ unfolded # <<>>
          THEN UnfoldLoop(Tail(lines),
                 [unfolded EXCEPT ![n] = unfolded[n] \o <<SP>> \o Strip(line)])
          ELSE UnfoldLoop(Tail(lines), Append(unfolded, RStrip(line)))

\* _unfold_headers keeping every line apart, a continuation line too
_unfold_headers_by_line(headers_text) ==
  [i \in 1..Len(SplitLines(headers_text)) |-> RStrip(SplitLines(headers_text)[i])]

_unfold_headers(headers_text) == UnfoldLoop(SplitLines(headers_text), <<>>)

\* the dict of header values by key, in insertion order: <<[key, vals], ...>>
HeaderIndexOf(headers, key) ==
  IF \E i \in 1..Len(headers) : headers[i].key = key
  THEN CHOOSE i \in 1..Len(headers) : headers[i].key = key
  ELSE 0

\* headers.setdefault(key, []).append(val)
HeadersAppend(headers, key, val) ==
  LET i == HeaderIndexOf(headers, key)
  IN IF i = 0 THEN Append(headers, [key |-> key, vals |-> <<val>>])
     ELSE [headers EXCEPT ![i].vals = Append(@, val)]

\* the indexing loop: a line with a ':' is split at the first one
RECURSIVE IndexHeaders(_, _)
IndexHeaders(lines, headers) ==
  IF lines = <<>> THEN headers
  ELSE LET line == Head(lines)
           c    == IndexOf(line, ":")
       IN IF c # 0
          THEN IndexHeaders(Tail(lines),
                 HeadersAppend(headers,
                               Lower(Strip(SubSeq(line, 1, c - 1))),
                               Strip(SubSeq(line, c + 1, Len(line)))))
          ELSE IndexHeaders(Tail(lines), headers)

\* headers.get(key, [])
HeadersGet(headers, key) ==
  LET i == HeaderIndexOf(headers, <<key>>)
  IN IF i = 0 THEN <<>> ELSE headers[i].vals

HasHeader(headers, key) == HeaderIndexOf(headers, <<key>>) # 0

\* the values the regular expression of extract_auth_result accepts
AuthValues ==
  {"pass", "fail", "softfail", "neutral", "none", "temperror", "permerror", "bestguesspass"}

\* rf"{name}\s*=\s*(pass|fail|softfail|neutral|none|temperror|permerror|bestguesspass)"
AuthRe(name) ==
  <<Lit(name), Cls(Whitespace, "star", 0), Lit("="), Cls(Whitespace, "star", 0),
    Cls(AuthValues, "one", 1)>>

\* extract_auth_result giving the matched word where it is neither a pass nor a fail
extract_auth_result_verbatim(name, auth_results_text) ==
  LET m == Search(AuthRe(name), auth_results_text)
  IN IF m.ok
     THEN LET value == LowerTok(m.caps[1][1])
          IN IF value \in {"pass", "bestguesspass"} THEN "pass"
             ELSE IF value \in {"fail", "permerror"} THEN "fail"
             ELSE value
     ELSE "unknown"

extract_auth_result(name, auth_results_text) ==
  LET m == Search(AuthRe(name), auth_results_text)
  IN IF m.ok
     THEN LET value == LowerTok(m.caps[1][1])
          IN IF value \in {"pass", "bestguesspass"} THEN "pass"
             ELSE IF value \in {"fail", "permerror"} THEN "fail"
             ELSE "unknown"
     ELSE "unknown"

\* the Received-SPF fallback of the SPF status
ReceivedSpfStage(spf_status, headers) ==
  IF spf_status = "unknown" /\ HasHeader(headers, "received-spf")
  THEN LET combined == Lower(Join(HeadersGet(headers, "received-spf"), <<SP>>))
           padded   == <<SP>> \o combined \o <<SP>>
       IN IF Contains(padded, <<SP, "pass", SP>>) THEN "pass"
          ELSE IF Contains(padded, <<SP, "fail", SP>>) THEN "fail"
          ELSE spf_status
  ELSE spf_status

\* ' '.join([f"{k}: {' '.join(v)}" for k, v in headers.items()]).lower()
FlatHeaders(headers) ==
  Lower(Join([i \in 1..Len(headers) |->
                headers[i].key \o <<":", SP>> \o Join(headers[i].vals, <<SP>>)],
             <<SP>>))

\* the last-resort scan of one status, run whatever the status is
FlatStageAlways(name, status, flat) ==
  IF Contains(flat, <<name, "=", "pass">>) THEN "pass"
  ELSE IF Contains(flat, <<name, "=", "fail">>) THEN "fail"
  ELSE status

\* the last-resort scan of one status
FlatStage(name, status, flat) ==
  IF status = "unknown"
  THEN IF Contains(flat, <<name, "=", "pass">>) THEN "pass"
       ELSE IF Contains(flat, <<name, "=", "fail">>) THEN "fail"
       ELSE status
  ELSE status

\* r"@([\w.-]+)"
FromDomainRe == <<Lit("@"), NotCls(Separators \ {"."}, "plus", 1)>>

ExtractFromDomain(headers) ==
  IF HasHeader(headers, "from")
  THEN LET m == Search(FromDomainRe, Join(HeadersGet(headers, "from"), <<SP>>))
       IN IF m.ok THEN Lower(m.caps[1]) ELSE None
  ELSE None

\* the cascade over the indexed headers
ParseIndexed(headers, auth_results_text, flat) ==
  [present |-> TRUE,
   spf   |-> FlatStage("spf",
                       ReceivedSpfStage(extract_auth_result("spf", auth_results_text),
                                        headers),
                       flat),
   dkim  |-> FlatStage("dkim", extract_auth_result("dkim", auth_results_text), flat),
   dmarc |-> FlatStage("dmarc", extract_auth_result("dmarc", auth_results_text), flat),
   from_domain |-> ExtractFromDomain(headers)]

\* ' '.join(authentication-results) + ' ' + ' '.join(arc-authentication-results)
AuthResultsText(headers) ==
  Join(HeadersGet(headers, "authentication-results"), <<SP>>)
  \o <<SP>> \o Join(HeadersGet(headers, "arc-authentication-results"), <<SP>>)

ParseHeaderIndex(headers) ==
  ParseIndexed(headers, AuthResultsText(headers), FlatHeaders(headers))

parse_auth_headers(headers_text) ==
  IF headers_text = <<>>
  THEN [present |-> FALSE, spf |-> "unknown", dkim |-> "unknown",
        dmarc |-> "unknown", from_domain |-> None]
  ELSE ParseHeaderIndex(IndexHeaders(_unfold_headers(headers_text), <<>>))

(***************************************************************************)
(* services/heuristics.py: the allowlist                                   *)
(***************************************************************************)
ALLOWLIST_DOMAINS ==
  {<<"google", ".", "com">>, <<"gmail", ".", "com">>, <<"apple", ".", "com">>,
   <<"amazon", ".", "com">>, <<"microsoft", ".", "com">>, <<"outlook", ".", "com">>,
   <<"live", ".", "com">>, <<"paypal", ".", "com">>, <<"netflix", ".", "com">>}

\* r"From:\s*[^<]*<[^@>]+@([^>]+)>"
AllowlistFromRe ==
  <<Lit("from"), Lit(":"), Cls(Whitespace, "star", 0), NotCls({"<"}, "star", 0),
    Lit("<"), NotCls({"@", ">"}, "plus", 0), Lit("@"), NotCls({">"}, "plus", 1),
    Lit(">")>>

\* any(domain == d or domain.endswith('.' + d) for d in ALLOWLIST_DOMAINS)
IsAllowlisted(domain) ==
  \E d \in ALLOWLIST_DOMAINS : domain = d \/ EndsWith(domain, <<".">> \o d)

Max(a, b) == IF a >= b THEN a ELSE b
Min(a, b) == IF a <= b THEN a ELSE b

\* apply_allowlist without the floor at 0.0
apply_allowlist_unfloored(spam_score, headers_text) ==
  IF headers_text = <<>> THEN spam_score
  ELSE LET m == Search(AllowlistFromRe, headers_text)
       IN IF ~m.ok THEN spam_score
          ELSE IF IsAllowlisted(Lower(Strip(m.caps[1])))
               THEN spam_score - 100000
               ELSE spam_score

apply_allowlist(spam_score, headers_text) ==
  IF headers_text = <<>> THEN spam_score
  ELSE LET m == Search(AllowlistFromRe, headers_text)
       IN IF ~m.ok THEN spam_score
          ELSE IF IsAllowlisted(Lower(Strip(m.caps[1])))
               THEN Max(0, spam_score - 100000)
               ELSE spam_score

(***************************************************************************)
(* Numbers: P(n) is n hundredths, in millionths.                           *)
(***************************************************************************)
P(n) == n * 10000

One == P(100)

\* np.clip(x, 0.0, 1.0)
Clip(x) == Max(0, Min(One, x))

\* weight * value, the weight in hundredths
Times(weight, value) == (weight * value) \div 100

\* len(s) of a text: the characters of its tokens
RECURSIVE CharLen(_)
CharLen(s) == IF s = <<>> THEN 0 ELSE Len(Head(s)) + CharLen(Tail(s))

\* re.findall of a pattern whose one group is the whole match
RECURSIVE FindAllFrom(_, _, _)
FindAllFrom(re, txt, pos) ==
  IF pos > Len(txt) THEN <<>>
  ELSE LET r == MatchAt(re, 1, txt, pos)
       IN IF r.ok /\ r.end > pos
          THEN <<SubSeq(txt, pos, r.end - 1)>> \o FindAllFrom(re, txt, r.end)
          ELSE FindAllFrom(re, txt, pos + 1)

FindAll(re, txt) == FindAllFrom(re, txt, 1)

\* the first of the alternatives res that matches at pos
RECURSIVE MatchAny(_, _, _)
MatchAny(res, txt, pos) ==
  IF res = <<>> THEN NoMatch
  ELSE LET r == MatchAt(Head(res), 1, txt, pos)
       IN IF r.ok /\ r.end > pos THEN r ELSE MatchAny(Tail(res), txt, pos)

\* pattern.sub(repl, txt) for the pattern  res[1] | res[2] | ...
RECURSIVE SubFrom(_, _, _, _)
SubFrom(res, repl, txt, pos) ==
  IF pos > Len(txt) THEN <<>>
  ELSE LET r == MatchAny(res, txt, pos)
       IN IF r.ok THEN repl \o SubFrom(res, repl, txt, r.end)
          ELSE <<txt[pos]>> \o SubFrom(res, repl, txt, pos + 1)

Sub(res, repl, txt) == SubFrom(res, repl, txt, 1)

(***************************************************************************)
(* services/url_intel.py                                                   *)
(***************************************************************************)
\* the characters of [\w\-\.\:/%\?&#=~+;,@!$'\(\)\*]: all tokens but these
NonUrlTokens == Whitespace \cup {"<", ">", "\""}

\* r"(https?://[\w\-\.\:/%\?&#=~+;,@!$'\(\)\*]+)"
UrlRe == <<Cls({"http", "https"}, "one", 0), Lit("://"), NotCls(NonUrlTokens, "plus", 0)>>

extract_urls(text) == FindAll(UrlRe, text)

\* index of the first token of s from position i on that is in the set S, else Len(s) + 1
RECURSIVE FirstIn(_, _, _)
FirstIn(s, S, i) ==
  IF i > Len(s) THEN Len(s) + 1 ELSE IF s[i] \in S THEN i ELSE FirstIn(s, S, i + 1)

\* urllib.parse.urlparse of scheme://netloc/path?query
urlparse(url) ==
  LET a == IndexOf(url, "://")
      b == FirstIn(url, {"/", "?"}, a + 1)
      c == FirstIn(url, {"?"}, b)
  IN IF a = 0 THEN [netloc |-> <<>>, path |-> url, query |-> <<>>]
     ELSE [netloc |-> SubSeq(url, a + 1, b - 1),
           path   |-> SubSeq(url, b, c - 1),
           query  |-> SubSeq(url, c + 1, Len(url))]

suspicious_tlds == {"zip", "mov", "click", "work", "xyz", "top", "casa"}

\* the word tokens that contain "xn--", all of them at their start
PunycodeTokens == {"xn--80ak6aa92e"}

\* the word tokens that are one to three digits
DigitTokens == {"192", "168", "1", "10"}

\* r"^\d{1,3}(?:\.\d{1,3}){3}$"
IpRe ==
  <<Cls(DigitTokens, "one", 0), Lit("."), Cls(DigitTokens, "one", 0), Lit("."),
    Cls(DigitTokens, "one", 0), Lit("."), Cls(DigitTokens, "one", 0)>>

FullMatch(re, txt) ==
  LET r == MatchAt(re, 1, txt, 1) IN r.ok /\ r.end = Len(txt) + 1

\* the body of the loop of analyze_urls
AnalyzeUrl(url) ==
  LET parsed == urlparse(url)
      host   == Lower(parsed.netloc)
      labels == Split(host, ".")
      tld    == IF IndexOf(host, ".") # 0 THEN labels[Len(labels)] ELSE <<>>
      segs   == Split(parsed.path, "/")
  IN [url  |-> url,
      host |-> host,
      is_punycode |-> \E i \in 1..Len(host) : host[i] \in PunycodeTokens,
      is_suspicious_tld |-> Len(tld) = 1 /\ tld[1] \in suspicious_tlds,
      has_ip_host |-> FullMatch(IpRe, Split(host, ":")[1]),
      path_depth |-> Cardinality({i \in 1..Len(segs) : segs[i] # <<>>}),
      long_query |-> CharLen(parsed.query) > 80]

\* urls[:25]
UrlCap == 25

\* analyze_urls over the whole list
analyze_urls_uncapped(urls) ==
  [i \in 1..Len(urls) |-> AnalyzeUrl(urls[i])]

analyze_urls(urls) ==
  [i \in 1..Min(Len(urls), UrlCap) |-> AnalyzeUrl(urls[i])]

\* what one finding adds to the risk, a long query adding nothing
FindingRiskNoQuery(f) ==
    (IF f.is_suspicious_tld THEN P(15) ELSE 0)
  + (IF f.has_ip_host THEN P(10) ELSE 0)
  + (IF f.is_punycode THEN P(5) ELSE 0)
  + (IF f.path_depth > 4 THEN P(5) ELSE 0)

\* what one finding adds to the risk
FindingRisk(f) ==
    (IF f.is_suspicious_tld THEN P(15) ELSE 0)
  + (IF f.has_ip_host THEN P(10) ELSE 0)
  + (IF f.is_punycode THEN P(5) ELSE 0)
  + (IF f.path_depth > 4 THEN P(5) ELSE 0)
  + (IF f.long_query THEN P(5) ELSE 0)

RECURSIVE SumRisk(_)
SumRisk(findings) ==
  IF findings = <<>> THEN 0 ELSE FindingRisk(Head(findings)) + SumRisk(Tail(findings))

\* compute_url_risk without the cap at 1.0
compute_url_risk_uncapped(findings) ==
  IF findings = <<>> THEN 0 ELSE SumRisk(findings)

compute_url_risk(findings) ==
  IF findings = <<>> THEN 0 ELSE Min(One, SumRisk(findings))

(***************************************************************************)
(* services/homograph.py                                                   *)
(***************************************************************************)
\* the tokens that stand for a label with characters above code point 127
NonAsciiTokens == {"apple-in-cyrillic"}

\* idna.decode of a label: the Unicode label of a punycode token
IdnaTable == [t \in PunycodeTokens |-> "apple-in-cyrillic"]

\* idna.decode(host); None when it raises (a host with a port or user part)
IdnaDecode(host) ==
  IF host = <<>> \/ \E i \in 1..Len(host) : host[i] \in {":", "@"} THEN None
  ELSE [i \in 1..Len(host) |->
          IF host[i] \in PunycodeTokens THEN IdnaTable[host[i]] ELSE host[i]]

detect_homograph(first_host) ==
  LET host == Lower(first_host)
      \* host.startswith('xn--') or '.xn--' in host
      is_punycode ==
        \E i \in 1..Len(host) :
          host[i] \in PunycodeTokens /\ (i = 1 \/ host[i - 1] = ".")
      decoded == IdnaDecode(host)
      looks_like ==
        IF decoded # None /\ decoded # host
        THEN IF \E i \in 1..Len(decoded) : decoded[i] \in NonAsciiTokens
             THEN <<"mixed-script">> ELSE None
        ELSE None
  IN [host |-> host, idn_decoded |-> decoded, punycode |-> is_punycode,
      looks_like |-> looks_like,
      homograph_risk |-> IF is_punycode \/ looks_like # None THEN P(15) ELSE 0]

(***************************************************************************)
(* services/heuristics.py: the boosters                                    *)
(***************************************************************************)
\* the patterns of _PHISH_PATTERNS that are one word
PhishWords ==
  {"congratulations", "immediately", "asap", "emergency", "critical", "expire", "deadline"}

\* _PHISH_REGEX, on texts whose only matches are these words
PhishRe == <<Cls(PhishWords, "one", 0)>>

phishing_phrase_score(text) ==
  IF text = <<>> THEN 0
  ELSE Min(One, P(25) * Len(FindAll(PhishRe, text)))

brand_keywords ==
  {"microsoft", "office365", "google", "gmail", "apple", "amazon", "paypal", "bank",
   "netflix", "meta", "facebook"}

\* r"From:\s*\"?([^\"<]+)\"?\s*<[^>]*@([^>]+)>"
DisplayFromRe ==
  <<Lit("from"), Lit(":"), Cls(Whitespace, "star", 0), Cls({"\""}, "opt", 0),
    NotCls({"\"", "<"}, "plus", 1), Cls({"\""}, "opt", 0), Cls(Whitespace, "star", 0),
    Lit("<"), NotCls({">"}, "star", 0), Lit("@"), NotCls({">"}, "plus", 2), Lit(">")>>

\* brand in text: a brand keyword is a token of its own
HasWord(text, word) == \E i \in 1..Len(text) : text[i] = word

display_name_domain_mismatch(headers_text) ==
  IF headers_text = <<>> THEN 0
  ELSE LET m == Search(DisplayFromRe, headers_text)
       IN IF ~m.ok THEN 0
          ELSE LET display == Lower(Strip(m.caps[1]))
                   domain  == Lower(Strip(m.caps[2]))
               IN IF \E brand \in brand_keywords :
                       HasWord(display, brand) /\ ~HasWord(domain, brand)
                  THEN P(60) ELSE 0

(***************************************************************************)
(* nlp/preprocess.py                                                       *)
(***************************************************************************)
\* r"<[^>]+>"
_html_tag_pattern == <<Lit("<"), NotCls({">"}, "plus", 0), Lit(">")>>

\* r"https?://\S+|www\.\S+"
_url_pattern ==
  <<  <<Cls({"http", "https"}, "one", 0), Lit("://"), NotCls(Whitespace, "plus", 0)>>,
      <<Lit("www"), Lit("."), NotCls(Whitespace, "plus", 0)>>  >>

\* r"[\w\.-]+@[\w\.-]+"
_email_pattern ==
  <<NotCls(Separators \ {"."}, "plus", 0), Lit("@"), NotCls(Separators \ {"."}, "plus", 0)>>

STOP_WORDS == {"you", "your", "to", "from", "the", "a", "is", "are", "have", "will"}

\* _token_pattern.findall on one lower-case token: its runs of two or more letters
LetterRuns(t) ==
  IF t \in Separators \/ t \in DigitTokens THEN <<>>
  ELSE IF t = "url_token" THEN <<"url", "token">>
  ELSE IF t = "email_token" THEN <<"email", "token">>
  ELSE IF t = "x" THEN <<>>
  ELSE <<t>>

\* PorterStemmer.stem
Stem(t) == IF t = "congratulations" THEN "congratul"
           ELSE IF t = "immediately" THEN "immedi" ELSE t

RECURSIVE Tokenize(_)
Tokenize(text) ==
  IF text = <<>> THEN <<>> ELSE LetterRuns(Head(text)) \o Tokenize(Tail(text))

\* the phone and currency substitutions have nothing to replace in the texts used
clean_text(raw_text) ==
  IF raw_text = <<>> THEN <<>>
  ELSE LET t1 == Sub(<<_html_tag_pattern>>, <<SP>>, raw_text)
           t2 == Sub(_url_pattern, <<SP, "URL_TOKEN", SP>>, t1)
           t3 == Sub(<<_email_pattern>>, <<SP, "EMAIL_TOKEN", SP>>, t2)
           tokens    == Tokenize(Lower(t3))
           processed == SelectSeq(tokens, LAMBDA t : t \notin STOP_WORDS)
       IN [i \in 1..Len(processed) |-> Stem(processed[i])]

(***************************************************************************)
(* services/model_service.py                                               *)
(***************************************************************************)
\* EnsembleService(lstm_service, url_weight=0.15), the other weights by default
url_weight     == 15
header_weight  == 35
phrase_weight  == 15
display_weight == 10

\* the header risk with a pass counted like an unknown
HeaderRiskPassAsUnknown(header_findings) ==
  IF header_findings.present
  THEN Clip(  (IF header_findings.spf = "fail" THEN P(40) ELSE P(5))
            + (IF header_findings.dkim = "fail" THEN P(35) ELSE P(5))
            + (IF header_findings.dmarc = "fail" THEN P(50) ELSE P(5)))
  ELSE 0

\* the header risk of blend
HeaderRisk(header_findings) ==
  IF header_findings.present
  THEN Clip(  (IF header_findings.spf = "fail" THEN P(40)
               ELSE IF header_findings.spf = "unknown" THEN P(5) ELSE 0)
            + (IF header_findings.dkim = "fail" THEN P(35)
               ELSE IF header_findings.dkim = "unknown" THEN P(5) ELSE 0)
            + (IF header_findings.dmarc = "fail" THEN P(50)
               ELSE IF header_findings.dmarc = "unknown" THEN P(5) ELSE 0))
  ELSE 0

\* blend with the weights of the branch with headers in both branches
blend_weighted(lstm_out, url_risk_score, header_findings, phrase_score, display_mismatch) ==
  LET header_risk  == HeaderRisk(header_findings)
      base_weight  ==
        Max(0, 100 - url_weight - header_weight - phrase_weight - display_weight - 20)
      blended_spam ==
          Times(base_weight, lstm_out.spam_prob)
        + Times(url_weight, url_risk_score)
        + Times(header_weight, header_risk)
        + Times(phrase_weight, Clip(phrase_score))
        + Times(display_weight, Clip(display_mismatch))
  IN [spam_prob      |-> Clip(blended_spam),
      raw_spam_prob  |-> lstm_out.spam_prob,
      category_probs |-> lstm_out.category_probs,
      content_risk   |-> 0]

\* EnsembleService.blend after self.lstm.predict returned lstm_out; the call of
\* app.py passes no content_features, so content_risk stays 0.0
blend(lstm_out, url_risk_score, header_findings, phrase_score, display_mismatch) ==
  LET header_risk  == HeaderRisk(header_findings)
      content_risk == 0
      base_weight  ==
        Max(0, 100 - url_weight - header_weight - phrase_weight - display_weight - 20)
      blended_spam ==
        IF header_findings.present
        THEN   Times(base_weight, lstm_out.spam_prob)
             + Times(url_weight, url_risk_score)
             + Times(header_weight, header_risk)
             + Times(phrase_weight, Clip(phrase_score))
             + Times(display_weight, Clip(display_mismatch))
             + Times(20, content_risk)
        ELSE   Times(70, lstm_out.spam_prob)
             + Times(15, url_risk_score)
             + Times(15, content_risk)
  IN [spam_prob      |-> Clip(blended_spam),
      raw_spam_prob  |-> lstm_out.spam_prob,
      category_probs |-> lstm_out.category_probs,
      content_risk   |-> content_risk]

(***************************************************************************)
(* app.py: the steps of predict                                            *)
(***************************************************************************)
\* the URL risk with the homograph risk added and the sum left as it is
UrlRiskScoreUnclipped(urls_in_message, url_findings) ==
  IF urls_in_message # <<>>
  THEN compute_url_risk(url_findings)
       + detect_homograph(urlparse(urls_in_message[1]).netloc).homograph_risk
  ELSE compute_url_risk(url_findings)

\* lines 70-83: the URL risk, with the homograph risk of the first URL's host
UrlRiskScore(urls_in_message, url_findings) ==
  IF urls_in_message # <<>>
  THEN Clip(compute_url_risk(url_findings)
            + detect_homograph(urlparse(urls_in_message[1]).netloc).homograph_risk)
  ELSE compute_url_risk(url_findings)

HasRiskyUrl(url_findings) ==
  \E i \in 1..Len(url_findings) :
    \/ url_findings[i].is_suspicious_tld
    \/ url_findings[i].has_ip_host
    \/ url_findings[i].path_depth > 4
    \/ url_findings[i].long_query

HeaderFail(header_findings) ==
  /\ header_findings.present
  /\ \/ header_findings.dmarc = "fail"
     \/ header_findings.spf = "fail" /\ header_findings.dkim = "fail"

\* the override step assigning its levels instead of raising to them
RuleOverrideAssigning(spam_prob, header_findings, url_findings, url_risk_score) ==
  IF HeaderFail(header_findings) /\ HasRiskyUrl(url_findings)
  THEN P(90)
  ELSE IF HeaderFail(header_findings)
          \/ (HasRiskyUrl(url_findings) /\ url_risk_score > P(40))
       THEN P(75)
       ELSE spam_prob

\* the override step without its first rule
RuleOverrideSecondRuleOnly(spam_prob, header_findings, url_findings, url_risk_score) ==
  IF HeaderFail(header_findings)
     \/ (HasRiskyUrl(url_findings) /\ url_risk_score > P(40))
  THEN Max(spam_prob, P(75))
  ELSE spam_prob

\* lines 113-116: the rule-based safety overrides
RuleOverride(spam_prob, header_findings, url_findings, url_risk_score) ==
  IF HeaderFail(header_findings) /\ HasRiskyUrl(url_findings)
  THEN Max(spam_prob, P(90))
  ELSE IF HeaderFail(header_findings)
          \/ (HasRiskyUrl(url_findings) /\ url_risk_score > P(40))
       THEN Max(spam_prob, P(75))
       ELSE spam_prob

\* the threshold taken as reached at 0.45
ThresholdInclusive(spam_prob) == IF spam_prob >= P(45) THEN "Spam" ELSE "Not Spam"

\* line 120
Threshold(spam_prob) == IF spam_prob > P(45) THEN "Spam" ELSE "Not Spam"

\* round(x * 100, 2): hundredths of a percent, a tie going to the even one
RoundPct(x) ==
  LET q == x \div 100
      r == x % 100
  IN IF r > 50 \/ (r = 50 /\ q % 2 = 1) THEN q + 1 ELSE q

\* category_encoder: the class names of the fitted label encoder
category_encoder == <<"phishing", "promotion">>

\* int(np.argmax(category_probs)): the first index of the greatest value
ArgMax(probs) ==
  CHOOSE i \in 1..Len(probs) :
    /\ \A j \in 1..Len(probs) : probs[j] <= probs[i]
    /\ \A j \in 1..(i - 1) : probs[j] < probs[i]

\* lines 125-129
PredictedCategory(category_probs) ==
  IF category_probs # <<>> THEN category_encoder[ArgMax(category_probs)] ELSE "General"

\* lines 68-91: what predict extracts from the form fields before the classifier runs
Extracted(message, raw_headers) ==
  [urls_in_message  |-> extract_urls(message),
   header_findings  |-> parse_auth_headers(raw_headers),
   phrase_score     |-> phishing_phrase_score(message),
   display_mismatch |-> display_name_domain_mismatch(raw_headers),
   raw_headers      |-> raw_headers]

\* line 72
WithFindings(e) == [url_findings |-> analyze_urls(e.urls_in_message)] @@ e

\* lines 73-83
WithUrlRisk(e) ==
  [url_risk_score |-> UrlRiskScore(e.urls_in_message, e.url_findings)] @@ e

\* lines 93-99 and 125-129, the classifier having returned lstm_out
WithBlend(e, lstm_out) ==
  [blended  |-> blend(lstm_out, e.url_risk_score, e.header_findings, e.phrase_score,
                      e.display_mismatch).spam_prob,
   category |-> PredictedCategory(lstm_out.category_probs)] @@ e

\* the override step raising the score of the request that follows a Spam row
WithOverrideAfterSpam(e) ==
  [overridden |->
     IF db # <<>> /\ db[Len(db)].prediction = "Spam"
     THEN Max(P(90), RuleOverride(e.blended, e.header_findings, e.url_findings,
                                  e.url_risk_score))
     ELSE RuleOverride(e.blended, e.header_findings, e.url_findings,
                       e.url_risk_score)] @@ e

\* lines 101-116
WithOverride(e) ==
  [overridden |-> RuleOverride(e.blended, e.header_findings, e.url_findings,
                               e.url_risk_score)] @@ e

\* line 119
WithAllowlist(e) == [spam_prob |-> apply_allowlist(e.overridden, e.raw_headers)] @@ e

\* lines 120-122
WithLabel(e) ==
  [prediction  |-> Threshold(e.spam_prob),
   spam_pct    |-> RoundPct(e.spam_prob),
   notspam_pct |-> RoundPct(One - e.spam_prob)] @@ e

\* lines 68-91 of predict: every value computed before the blend
Features(message, raw_headers) == WithUrlRisk(WithFindings(Extracted(message, raw_headers)))

\* the fusion with the allowlist applied to the blend, before the overrides
FuseAttenuatingFirst(features, lstm_out) ==
  LET b   == WithBlend(features, lstm_out)
      att == apply_allowlist(b.blended, b.raw_headers)
      ov  == RuleOverride(att, b.header_findings, b.url_findings, b.url_risk_score)
  IN WithLabel([overridden |-> ov, spam_prob |-> ov] @@ b)

\* lines 93-129 of predict: the blend, the overrides, the allowlist, the threshold
Fuse(features, lstm_out) ==
  WithLabel(WithAllowlist(WithOverride(WithBlend(features, lstm_out))))

Score(message, raw_headers, lstm_out) == Fuse(Features(message, raw_headers), lstm_out)

(***************************************************************************)
(* The inputs: header blocks and message bodies, built from lines and      *)
(* parts that exercise every branch of the parsers.                        *)
(***************************************************************************)
\* the greatest number of lines of a header block given to the parsers
MaxLines == 2

\* the greatest number of URLs in a message body
MaxMsgUrls == 2

\* the greatest number of findings in a list given to compute_url_risk
MaxFindings == 3

\* the greatest number of findings in a list given to the override step
MaxFused == 2

\* the greatest number of rows the predictions table grows to
MaxRows == 3

\* the sequences over S of length 0..n
RECURSIVE SeqsUpTo(_, _)
SeqsUpTo(S, n) ==
  IF n = 0 THEN {<<>>}
  ELSE LET shorter == SeqsUpTo(S, n - 1)
       IN shorter \cup {Append(q, x) : q \in {r \in shorter : Len(r) = n - 1}, x \in S}

AuthFail3 ==
  <<"Authentication-Results", ":", SP, "spf", "=", "fail", ";", SP, "dkim", "=", "fail",
    ";", SP, "dmarc", "=", "fail">>
AuthPass3 ==
  <<"Authentication-Results", ":", SP, "spf", "=", "pass", ";", SP, "dkim", "=", "pass",
    ";", SP, "dmarc", "=", "pass">>
AuthSoft    == <<"Authentication-Results", ":", SP, "SPF", "=", "softfail", ";", "dkim", SP, "=", SP, "Fail">>
AuthOpen    == <<"Authentication-Results", ":", SP, "mx", ";">>
ArcPermerr  == <<"ARC-Authentication-Results", ":", "dmarc", "=", "permerror">>
RecvPass    == <<"Received-SPF", ":", SP, "Pass", SP, "x">>
RecvFail    == <<"Received-SPF", ":", TAB, "fail">>
NoteFlat    == <<"X-Note", ":", SP, "spf", "=", "fail", SP, "dkim", "=", "pass">>
ContDmarc   == <<SP, "dmarc", "=", "pass", SP>>
ContSpf     == <<TAB, "spf", SP, "=", SP, "pass">>
ContFrom    == <<SP, "<", "it", "@", "paypal", ".", "com", ">">>
FromSub     == <<"From", ":", SP, "Bob", SP, "<", "bob", "@", "mail", ".", "Google", ".", "com", ">">>
FromBare    == <<"FROM", ":", SP, "bob", "@", "google", ".", "com">>
FromBrand   == <<"From", ":", SP, "\"", "PayPal", SP, "Support", "\"", SP, "<", "billing",
                 "@", "google", ".", "com", ".", "evil", ".", "test", ">">>
FromNot     == <<"From", ":", "<", "a", "@", "not", "google", ".", "com", ">">>
ToAllow     == <<"To", ":", SP, "<", "me", "@", "gmail", ".", "com", ">">>

HeaderLines ==
  {AuthFail3, AuthSoft, AuthOpen, ArcPermerr, RecvPass, RecvFail, NoteFlat, ContDmarc,
   ContSpf, ContFrom, FromSub, FromBare, FromBrand, FromNot, ToAllow, <<>>}

\* the header blocks of at most MaxLines lines
HeaderBlocks == {Join(ls, <<NL>>) : ls \in SeqsUpTo(HeaderLines, MaxLines)}

\* header blocks with two lines after a header line: continuation lines, or an
\* empty line and a line that starts with white space
FoldedBlocks ==
  {Join(<<a, b, c>>, <<NL>>) :
     a \in {AuthOpen, AuthSoft, RecvFail, FromBare},
     b \in {<<>>, ContDmarc, ContSpf},
     c \in {ContDmarc, ContSpf, ContFrom}}

\* the header blocks given to the parsers
ParserBlocks == HeaderBlocks \cup FoldedBlocks

\* the header blocks of the scoring runs: authentication lines, then a From line
ScoreHeaders ==
  {Join(a \o f, <<NL>>) :
     a \in {<<>>, <<AuthFail3>>, <<AuthPass3>>, <<ArcPermerr>>, <<AuthSoft, ContSpf>>,
            <<NoteFlat, RecvFail>>},
     f \in {<<>>, <<FromSub>>, <<FromBare>>, <<FromBrand>>, <<FromBare, ToAllow>>}}

Query90 ==
  "aaaaaaaaaaaaaaaaaaaaaaaaaaaaaaaaaaaaaaaaaaaaaaaaaaaaaaaaaaaaaaaaaaaaaaaaaaaaaaaaaaaaaaaaaa"

UrlIp    == <<"http", "://", "192", ".", "168", ".", "1", ".", "1", "/", "a", "/", "b", "/",
              "c", "/", "d", "/", "e", "?", "x", "=", Query90>>
UrlTld   == <<"https", "://", "evil", ".", "xyz", "/", "login">>
UrlPuny  == <<"HTTP", "://", "XN--80ak6aa92e", ".", "top", "/", "a", "/", "/", "b", "/",
              "c", "/", "d", "/", "e", "?", Query90>>
UrlPort  == <<"http", "://", "evil", ".", "xyz", ":", "8080", "/", "x">>
UrlPlain == <<"https", "://", "example", ".", "com", "/", "a", "?", "x", "=", "1">>

MessageUrls == {UrlIp, UrlTld, UrlPuny, UrlPort, UrlPlain}

MessageWords ==
  {<<"hello">>, <<"Congratulations", SP, "you", SP, "won", SP, "asap">>}

\* the message bodies: some words, then at most MaxMsgUrls URLs
Messages ==
  {Join(<<w>> \o us, <<SP>>) : w \in MessageWords, us \in SeqsUpTo(MessageUrls, MaxMsgUrls)}

\* what LSTMService.predict can return: (spam_prob, category_probs)
ClassifierOutputs ==
  {[spam_prob |-> P(2),  category_probs |-> <<>>],
   [spam_prob |-> P(60), category_probs |-> <<>>],
   [spam_prob |-> P(97), category_probs |-> <<>>],
   [spam_prob |-> P(2),  category_probs |-> <<P(50), P(50)>>],
   [spam_prob |-> P(97), category_probs |-> <<P(20), P(80)>>],
   [spam_prob |-> One,   category_probs |-> <<>>]}

\* the findings of the fusion and risk runs: each flag alone, none, and all
FindingKinds ==
  {[is_punycode |-> pc, is_suspicious_tld |-> st, has_ip_host |-> ip,
    path_depth |-> pd, long_query |-> lq] :
     pc \in BOOLEAN, st \in BOOLEAN, ip \in BOOLEAN, pd \in {0, 4, 5}, lq \in BOOLEAN}

RiskFindings ==
  {f \in FindingKinds :
     \/ FindingRisk(f) \in {0, P(40)}
     \/ FindingRisk(f) = P(5) /\ f.path_depth # 4
     \/ FindingRisk(f) \in {P(10), P(15)} /\ f.path_depth = 0}

\* the findings of the fusion runs: no flag, each flag alone, and all of them
FusedFindings ==
  {f \in RiskFindings :
     /\ f.path_depth # 4
     /\ \/ FindingRisk(f) \in {0, P(5), P(40)}
        \/ ~f.is_punycode /\ ~f.long_query}

Verdicts == {"pass", "fail", "unknown"}

\* the results parse_auth_headers can return, but for from_domain
HeaderFindings ==
  {[present |-> TRUE, spf |-> a, dkim |-> b, dmarc |-> c, from_domain |-> None] :
     a \in Verdicts, b \in Verdicts, c \in Verdicts}
  \cup {parse_auth_headers(<<>>)}

(***************************************************************************)
(* The state.                                                              *)
(***************************************************************************)
Nothing == [kind |-> "none"]

\* the greatest number of threads that call get_domain_age_days
NThreads == 2

Threads == 1..NThreads

\* a thread outside get_domain_age_days
IdleThread == [pc |-> "idle"]

\* whois_tls as imported with python-whois, without tldextract, and not called yet
WhoisIdle ==
  /\ imports = [whois |-> TRUE, tldextract |-> FALSE]
  /\ _WHOIS_CACHE = <<>>
  /\ threads = [t \in Threads |-> IdleThread]
  /\ queries = <<>>
  /\ returned = <<>>

Init ==
  /\ db = <<>>
  /\ lstmSeen = {}
  /\ calls = <<>>
  /\ response = Nothing
  /\ computed = Nothing
  /\ arg = Nothing
  /\ ret = Nothing
  /\ WhoisIdle

\* self.lstm.predict(cleaned_text): the model is loaded once and is stateless
LstmPredict(cleaned_text, outputs) ==
  IF \E e \in lstmSeen : e[1] = cleaned_text
  THEN {e[2] : e \in {x \in lstmSeen : x[1] = cleaned_text}}
  ELSE outputs

\* POST /predict, the form fields drawn from messages and headers
PredictFrom(messages, headers, outputs, cap) ==
  /\ Len(db) < cap
  /\ \E message \in messages, form_headers \in headers :
       \E raw_headers \in {Strip(form_headers)}, cleaned_text \in {clean_text(message)} :
         \/ \* self.lstm.predict raises inside blend: nothing catches it
            /\ response' = [kind |-> "error", status |-> 500]
            /\ computed' = Nothing
            /\ UNCHANGED <<db, lstmSeen, calls>>
         \/ \E features \in {Features(message, raw_headers)} :
              \E lstm_out \in LstmPredict(cleaned_text, outputs) :
                \E sc \in {Fuse(features, lstm_out)} :
                  \E verdict \in {[prediction |-> sc.prediction, spam |-> sc.spam_pct,
                                   notspam |-> sc.notspam_pct, category |-> sc.category]} :
                    /\ lstmSeen' = lstmSeen \cup {<<cleaned_text, lstm_out>>}
                    /\ db' = Append(db, [message |-> message,
                                         prediction |-> sc.prediction,
                                         category |-> sc.category,
                                         spam_score |-> sc.spam_pct])
                    /\ response' = [kind |-> "verdict", verdict |-> verdict,
                                    header_findings |-> sc.header_findings]
                    /\ computed' =
                         [kind |-> "score",
                          lstm_out       |-> lstm_out,
                          raw_headers    |-> raw_headers,
                          n_findings     |-> Len(sc.url_findings),
                          has_risky_url  |-> HasRiskyUrl(sc.url_findings),
                          header_fail    |-> HeaderFail(sc.header_findings),
                          url_risk       |-> compute_url_risk(sc.url_findings),
                          url_risk_score |-> sc.url_risk_score,
                          header_risk    |-> HeaderRisk(sc.header_findings),
                          phrase_score   |-> sc.phrase_score,
                          display_mismatch |-> sc.display_mismatch,
                          blended        |-> sc.blended,
                          overridden     |-> sc.overridden,
                          spam_prob      |-> sc.spam_prob]
                    /\ calls' = Append(calls, [message |-> message,
                                               headers |-> form_headers,
                                               verdict |-> verdict])
  /\ UNCHANGED <<arg, ret, whoisvars>>

\* the requests of the server run
ServerMessages == {<<"hello">>, Join(<<<<"Congratulations">>, UrlIp>>, <<SP>>)}
ServerHeaders  == {<<>>, Join(<<AuthFail3, FromSub>>, <<NL>>), FromBare \o <<NL>>}
ServerOutputs  == {o \in ClassifierOutputs : o.spam_prob \in {P(2), P(97)}}

Predict == PredictFrom(ServerMessages, ServerHeaders, ServerOutputs, MaxRows)

\* GET /history: the ten newest rows, newest first
History ==
  /\ response' = [kind |-> "history",
                  rows |-> [i \in 1..Min(Len(db), 10) |-> db[Len(db) + 1 - i]]]
  /\ computed' = Nothing
  /\ UNCHANGED <<db, lstmSeen, calls, arg, ret, whoisvars>>

Next == Predict \/ History

Spec == Init /\ [][Next]_vars

\* a message body with five phishing words and five URLs of risk 0.20 each
HeavyMessage ==
  LET url == <<"HTTP", "://", "XN--80ak6aa92e", ".", "top">>
  IN Join(<<<<"Congratulations">>, <<"immediately">>, <<"asap">>, <<"emergency">>,
            <<"critical">>, url, url, url, url, url>>, <<SP>>)

\* the message bodies of the scoring run
ScoreMessages ==
  {Join(<<w>> \o us, <<SP>>) :
     w \in MessageWords, us \in SeqsUpTo(MessageUrls \ {UrlPort}, MaxMsgUrls)}
  \cup {HeavyMessage}

\* one request scored from an empty table, over all those messages and header blocks
PredictOnce == PredictFrom(ScoreMessages, ScoreHeaders, ClassifierOutputs, 1)

SpecScore == Init /\ [][PredictOnce]_vars

(***************************************************************************)
(* The functions on their own: a run draws the arguments and applies one.  *)
(***************************************************************************)
Idle ==
  /\ db = <<>>
  /\ lstmSeen = {}
  /\ calls = <<>>
  /\ response = Nothing
  /\ computed = Nothing
  /\ ret = Nothing
  /\ WhoisIdle

Returns(kind, value) ==
  /\ ret' = [kind |-> kind, value |-> value]
  /\ UNCHANGED <<db, lstmSeen, calls, response, computed, arg, whoisvars>>

\* the spam scores given to apply_allowlist
AllowScores == {0, P(5), P(10), P(50), One}

InitHeader ==
  /\ Idle
  /\ arg \in {[kind |-> "headers", headers_text |-> h] : h \in ParserBlocks}
          \cup {[kind |-> "allowlist", headers_text |-> h, spam_score |-> p] :
                  h \in ParserBlocks, p \in AllowScores}

ParseAuthHeaders ==
  /\ arg.kind = "headers"
  /\ Returns("parse_auth_headers", parse_auth_headers(arg.headers_text))

ApplyAllowlist ==
  /\ arg.kind = "allowlist"
  /\ Returns("apply_allowlist", apply_allowlist(arg.spam_score, arg.headers_text))

SpecHeader == InitHeader /\ [][ParseAuthHeaders \/ ApplyAllowlist]_vars

\* the greatest number of URLs in a list given to analyze_urls
MaxUrls == 27

Repeat(u, n) == [i \in 1..n |-> u]

\* the URL lists around the cap: one URL repeated, then at most two others
LongUrlLists ==
  {Repeat(u, n - Len(t)) \o t :
     u \in {UrlPlain, UrlTld}, n \in (UrlCap - 1)..MaxUrls,
     t \in SeqsUpTo({UrlIp, UrlPlain}, 2)}

UrlLists == SeqsUpTo(MessageUrls, MaxMsgUrls) \cup LongUrlLists

InitUrl ==
  /\ Idle
  /\ arg \in {[kind |-> "findings", url_findings |-> fs] :
                fs \in SeqsUpTo(RiskFindings, MaxFindings)}
          \cup {[kind |-> "urls", urls |-> us] : us \in UrlLists}

\* lines 72-73 and 102-105 of predict, on a list of URLs
UrlIntel ==
  /\ arg.kind = "urls"
  /\ \E url_findings \in {analyze_urls(arg.urls)} :
       Returns("url_intel", [url_findings   |-> url_findings,
                             url_risk_score |-> compute_url_risk(url_findings),
                             has_risky_url  |-> HasRiskyUrl(url_findings)])

ComputeUrlRisk ==
  /\ arg.kind = "findings"
  /\ Returns("compute_url_risk", compute_url_risk(arg.url_findings))

SpecUrl == InitUrl /\ [][ComputeUrlRisk \/ UrlIntel]_vars

\* the blended values given to the override step
BlendedValues == {0, P(30), P(45), P(75), P(80), P(90), P(95), One}

\* header findings with present false, whatever the three verdicts say
AbsentFindings ==
  {[present |-> FALSE, spf |-> a, dkim |-> b, dmarc |-> c, from_domain |-> None] :
     a \in Verdicts, b \in Verdicts, c \in Verdicts}

\* the arguments given to blend on its own
BlendArgs ==
  {[kind |-> "blend", lstm_out |-> o, url_risk_score |-> u, header_findings |-> hv,
    phrase_score |-> ph, display_mismatch |-> dm] :
     o \in ClassifierOutputs, u \in {0, P(20), One},
     hv \in HeaderFindings \cup AbsentFindings,
     ph \in {0, P(25), One}, dm \in {0, P(60)}}

\* the override step of predict: the URL risk is that of the findings, with or
\* without the homograph risk of the first host
InitFusion ==
  /\ Idle
  /\ arg \in {[kind |-> "fusion", spam_prob |-> p, header_findings |-> hv,
               url_findings |-> fs,
               url_risk_score |-> IF fs = <<>> THEN compute_url_risk(fs)
                                  ELSE Clip(compute_url_risk(fs) + h)] :
                p \in BlendedValues, hv \in HeaderFindings,
                fs \in SeqsUpTo(FusedFindings, MaxFused), h \in {0, P(15)}}
          \cup BlendArgs

ApplyBlend ==
  /\ arg.kind = "blend"
  /\ Returns("blend", blend(arg.lstm_out, arg.url_risk_score, arg.header_findings,
                            arg.phrase_score, arg.display_mismatch))

ApplyOverride ==
  /\ arg.kind = "fusion"
  /\ Returns("RuleOverride",
             RuleOverride(arg.spam_prob, arg.header_findings, arg.url_findings,
                          arg.url_risk_score))

SpecFusion == InitFusion /\ [][ApplyOverride \/ ApplyBlend]_vars

(***************************************************************************)
(* services/whois_tls.py: get_domain_age_days, called from several threads *)
(***************************************************************************)
\* the greatest number of calls of get_domain_age_days in a run
MaxLookups == 2

\* Python's None and an int, as values of age_days
PyNone == [none |-> TRUE]
PyInt(n) == [int |-> n]

\* the public suffixes tldextract knows, among those of the hosts
PublicSuffixes == {<<"com">>, <<"uk">>, <<"co", ".", "uk">>}

\* the last n labels of a host, joined with dots
LastLabels(parts, n) == Join(SubSeq(parts, Len(parts) - n + 1, Len(parts)), <<".">>)

\* tldextract.extract(host): the longest public suffix and the label before it
TldExtract(host) ==
  LET parts == Split(host, ".")
      fits  == {n \in 1..Len(parts) : LastLabels(parts, n) \in PublicSuffixes}
  IN IF fits = {}
     THEN [domain |-> parts[Len(parts)], suffix |-> <<>>]
     ELSE LET n == CHOOSE k \in fits : \A j \in fits : j <= k
          IN [domain |-> IF n < Len(parts) THEN parts[Len(parts) - n] ELSE <<>>,
              suffix |-> LastLabels(parts, n)]

_registrable_domain(host, tldextract) ==
  LET h == IF host = <<>> THEN <<>> ELSE Lower(Strip(Split(host, ":")[1]))
  IN IF h = <<>> THEN None
     ELSE IF ~tldextract
          THEN LET parts == Split(h, ".")
               IN IF Len(parts) >= 2 THEN LastLabels(parts, 2) ELSE h
          ELSE LET ext == TldExtract(h)
               IN IF ext.domain = <<>> \/ ext.suffix = <<>> THEN h
                  ELSE ext.domain \o <<".">> \o ext.suffix

\* what whois.whois(registrable) can do: answer with a creation date 10 or 11 days
\* old, answer without one, or raise
RegistrarAnswers ==
  {[kind |-> "created", age |-> 10], [kind |-> "created", age |-> 11],
   [kind |-> "no_creation_date"], [kind |-> "raises"]}

\* lines 82-92: age_days for what the query did
AgeDays(data) == IF data.kind = "created" THEN PyInt(data.age) ELSE PyNone

\* the cache after lines 83-92, an error left out of it
CacheAfterOmittingErrors(cache, registrable, data) ==
  IF data.kind = "raises" THEN cache
  ELSE (registrable :> [age_days |-> AgeDays(data)]) @@ cache

\* _WHOIS_CACHE[registrable] = {'age_days': ...} of lines 84, 88 and 91
CacheAfter(cache, registrable, data) ==
  (registrable :> [age_days |-> AgeDays(data)]) @@ cache

\* the hosts get_domain_age_days is called with
Hosts ==
  {<<"mail", ".", "evil", ".", "com">>, <<"Evil", ".", "com", ":", "8080">>,
   <<"shop", ".", "evil", ".", "co", ".", "uk">>, <<"other", ".", "co", ".", "uk">>,
   <<"localhost">>, <<>>}

InitWhois ==
  /\ db = <<>>
  /\ lstmSeen = {}
  /\ calls = <<>>
  /\ response = Nothing
  /\ computed = Nothing
  /\ arg = Nothing
  /\ ret = Nothing
  /\ imports \in [whois : BOOLEAN, tldextract : BOOLEAN]
  /\ _WHOIS_CACHE = <<>>
  /\ threads = [t \in Threads |-> IdleThread]
  /\ queries = <<>>
  /\ returned = <<>>

\* the calls begun so far
Begun == Len(returned) + Cardinality({t \in Threads : threads[t].pc # "idle"})

\* return from get_domain_age_days
Return(t, host, registrable, age_days, queried) ==
  /\ returned' = Append(returned, [host |-> host, registrable |-> registrable,
                                   age_days |-> age_days, queried |-> queried])
  /\ threads' = [threads EXCEPT ![t] = IdleThread]

\* lines 72-79: up to the look into the cache
Lookup(t, host) ==
  /\ threads[t].pc = "idle"
  /\ Begun < MaxLookups
  /\ IF ~imports.whois
     THEN Return(t, host, None, PyNone, FALSE)
     ELSE \E registrable \in {_registrable_domain(host, imports.tldextract)} :
            IF registrable = None
            THEN Return(t, host, None, PyNone, FALSE)
            ELSE IF registrable \in DOMAIN _WHOIS_CACHE
            THEN Return(t, host, registrable, _WHOIS_CACHE[registrable].age_days, FALSE)
            ELSE /\ threads' = [threads EXCEPT ![t] =
                                  [pc |-> "whois", host |-> host,
                                   registrable |-> registrable]]
                 /\ UNCHANGED returned
  /\ UNCHANGED <<db, lstmSeen, calls, response, computed, arg, ret, imports,
                 _WHOIS_CACHE, queries>>

\* line 81: the query goes out and the registrar answers, or the call raises
WhoisQuery(t) ==
  /\ threads[t].pc = "whois"
  /\ queries' = Append(queries, threads[t].registrable)
  /\ \E data \in RegistrarAnswers :
       threads' = [threads EXCEPT ![t] = [pc |-> "store", host |-> threads[t].host,
                                          registrable |-> threads[t].registrable,
                                          data |-> data]]
  /\ UNCHANGED <<db, lstmSeen, calls, response, computed, arg, ret, imports,
                 _WHOIS_CACHE, returned>>

\* lines 82-92: the age is stored in the cache and returned
StoreAndReturn(t) ==
  /\ threads[t].pc = "store"
  /\ _WHOIS_CACHE' = CacheAfter(_WHOIS_CACHE, threads[t].registrable, threads[t].data)
  /\ Return(t, threads[t].host, threads[t].registrable, AgeDays(threads[t].data), TRUE)
  /\ UNCHANGED <<db, lstmSeen, calls, response, computed, arg, ret, imports, queries>>

\* a call begun while no other call is under way
LookupAlone(t, host) ==
  /\ \A u \in Threads : threads[u].pc = "idle"
  /\ Lookup(t, host)

\* the threads call get_domain_age_days at any time
NextWhois ==
  \E t \in Threads :
    \/ \E host \in Hosts : Lookup(t, host)
    \/ WhoisQuery(t)
    \/ StoreAndReturn(t)

SpecWhois == InitWhois /\ [][NextWhois]_vars

\* the calls follow one another
NextWhoisSeq ==
  \E t \in Threads :
    \/ \E host \in Hosts : LookupAlone(t, host)
    \/ WhoisQuery(t)
    \/ StoreAndReturn(t)

SpecWhoisSeq == InitWhois /\ [][NextWhoisSeq]_vars

(***************************************************************************)
(* The properties.                                                         *)
(***************************************************************************)
\* headerFail as the specification words it
SaysHeaderFail(hv) ==
  hv.present /\ (hv.dmarc = "fail" \/ (hv.spf = "fail" /\ hv.dkim = "fail"))

\* a risky URL as the specification words it
SaysRisky(f) == f.is_suspicious_tld \/ f.has_ip_host \/ f.path_depth > 4 \/ f.long_query

SaysHasRiskyUrl(fs) == \E i \in 1..Len(fs) : SaysRisky(fs[i])

\* a finding with any of the five flags that add to the URL risk
SaysFlagged(f) == SaysRisky(f) \/ f.is_punycode

\* C1: the override step returns max(p, 0.90) when headerFail and hasRiskyUrl both
\* hold, max(p, 0.75) when only headerFail holds or hasRiskyUrl holds with
\* urlRisk > 0.40, and p otherwise; the value is never below p.
C1_OverrideNeverLowers ==
  ret.kind = "RuleOverride" =>
    LET p     == arg.spam_prob
        fail  == SaysHeaderFail(arg.header_findings)
        risky == SaysHasRiskyUrl(arg.url_findings)
    IN /\ ret.value >= p
       /\ ret.value = IF fail /\ risky THEN Max(p, P(90))
                      ELSE IF fail \/ (risky /\ arg.url_risk_score > P(40))
                           THEN Max(p, P(75))
                           ELSE p

\* C1 witness: a blended 0.30 is raised to 0.90 by a header failure with a risky URL
C1_Witness ==
  /\ ret.kind = "RuleOverride"
  /\ SaysHeaderFail(arg.header_findings)
  /\ SaysHasRiskyUrl(arg.url_findings)
  /\ arg.spam_prob = P(30)
  /\ ret.value = P(90)

\* C2: apply_allowlist(p, headers) returns r with 0.0 <= r <= p, and exactly 0.0
\* for a p below 0.1 when the block starts with the From line of an allowlisted sender.
C2_AllowlistOnlyLowers ==
  ret.kind = "apply_allowlist" =>
    /\ 0 <= ret.value
    /\ ret.value <= arg.spam_score
    /\ (arg.spam_score < P(10)
        /\ Len(arg.headers_text) >= Len(FromSub)
        /\ SubSeq(arg.headers_text, 1, Len(FromSub)) = FromSub) => ret.value = 0

\* C2 witness: 0.05 from an allowlisted sender comes out as 0.0
C2_Witness ==
  /\ ret.kind = "apply_allowlist"
  /\ arg.spam_score = P(5)
  /\ arg.headers_text = FromSub
  /\ ret.value = 0

\* C3: the label is Spam if and only if the final spam probability is strictly
\* greater than 0.45.
C3_LabelIffAboveThreshold ==
  computed.kind = "score" =>
    (response.verdict.prediction = "Spam" <=> computed.spam_prob > P(45))

\* C3 witness: a final probability of exactly 0.45 is labelled Not Spam
C3_Witness ==
  /\ computed.kind = "score"
  /\ computed.spam_prob = P(45)
  /\ response.verdict.prediction = "Not Spam"

\* C4: with headers that fail authentication and a risky URL in the message, the
\* probability after the override step is at least 0.90 and the label is Spam,
\* whatever the classifier returned and whoever the sender is.
C4_HeaderFailRiskyUrlIsSpam ==
  (/\ computed.kind = "score"
   /\ SaysHeaderFail(response.header_findings)
   /\ computed.has_risky_url)
  => /\ computed.overridden >= P(90)
     /\ response.verdict.prediction = "Spam"

\* C4 witness: the classifier says 0.02, the sender is allowlisted, the override
\* lifts the blend to 0.90 and the attenuated 0.80 is still Spam
C4_Witness ==
  /\ computed.kind = "score"
  /\ SaysHeaderFail(response.header_findings)
  /\ computed.has_risky_url
  /\ computed.lstm_out.spam_prob = P(2)
  /\ computed.blended < P(45)
  /\ computed.overridden = P(90)
  /\ computed.spam_prob = P(80)
  /\ response.verdict.prediction = "Spam"

\* C5 as stated: compute_url_risk is in [0,1], and is 0.0 if and only if the list
\* of findings is empty.
C5_ZeroIffEmpty ==
  ret.kind = "compute_url_risk" =>
    /\ 0 <= ret.value /\ ret.value <= One
    /\ (ret.value = 0 <=> arg.url_findings = <<>>)

\* C5 amended: compute_url_risk is in [0,1], and is 0.0 if and only if no finding
\* of the list has a flag (suspicious TLD, IP host, punycode, path depth over 4,
\* long query), as for the empty list.
C5_ZeroIffNoFlag ==
  ret.kind = "compute_url_risk" =>
    /\ 0 <= ret.value /\ ret.value <= One
    /\ (ret.value = 0 <=>
          \A i \in 1..Len(arg.url_findings) : ~SaysFlagged(arg.url_findings[i]))

\* C5 witness: a list of one finding without flags has risk 0.0
C5_Witness ==
  /\ ret.kind = "compute_url_risk"
  /\ Len(arg.url_findings) = 1
  /\ ~SaysFlagged(arg.url_findings[1])
  /\ ret.value = 0

\* C6: parse_auth_headers returns spf, dkim and dmarc in {pass, fail, unknown}; an
\* empty header text gives present = false, the three unknown and no from_domain;
\* present = false never comes with another verdict or with a from_domain.
C6_VerdictsWellFormed ==
  ret.kind = "parse_auth_headers" =>
    /\ ret.value.spf \in {"pass", "fail", "unknown"}
    /\ ret.value.dkim \in {"pass", "fail", "unknown"}
    /\ ret.value.dmarc \in {"pass", "fail", "unknown"}
    /\ arg.headers_text = <<>> => ~ret.value.present
    /\ ~ret.value.present =>
         /\ ret.value.spf = "unknown"
         /\ ret.value.dkim = "unknown"
         /\ ret.value.dmarc = "unknown"
         /\ ret.value.from_domain = None

\* C6 witness: the empty header text has been parsed
C6_Witness ==
  /\ ret.kind = "parse_auth_headers"
  /\ arg.headers_text = <<>>
  /\ ~ret.value.present
  /\ ret.value.from_domain = None

\* the block in which each continuation line is joined, after one space, onto the
\* line before it
RECURSIVE SpaceJoinLines(_, _)
SpaceJoinLines(lines, done) ==
  IF lines = <<>> THEN done
  ELSE IF done # <<>> /\ Head(lines) # <<>> /\ Head(lines)[1] \in {SP, TAB}
       THEN SpaceJoinLines(Tail(lines),
              SubSeq(done, 1, Len(done) - 1)
              \o <<RStrip(done[Len(done)]) \o <<SP>> \o Strip(Head(lines))>>)
       ELSE SpaceJoinLines(Tail(lines), Append(done, Head(lines)))

SpaceJoined(text) == Join(SpaceJoinLines(Split(text, NL), <<>>), <<NL>>)

HasContinuation(text) ==
  \E i \in 1..Len(text) : text[i] \in {SP, TAB} /\ (i = 1 \/ text[i - 1] = NL)

\* the folded blocks: their continuation lines follow a header line, so that the
\* joined block has no continuation line left
IsFolded(text) == HasContinuation(text) /\ ~HasContinuation(SpaceJoined(text))

\* C7: a folded header block parses to the same spf, dkim, dmarc and from_domain
\* as the block with each continuation line space-joined onto the line before it.
C7_FoldingKeepsResult ==
  (ret.kind = "parse_auth_headers" /\ IsFolded(arg.headers_text))
  => ret.value = parse_auth_headers(SpaceJoined(arg.headers_text))

\* C7 witness: a verdict that only the folded part of Authentication-Results holds
C7_Witness ==
  /\ ret.kind = "parse_auth_headers"
  /\ arg.headers_text = Join(<<AuthOpen, ContDmarc>>, <<NL>>)
  /\ ret.value.dmarc = "pass"

\* C8 as stated: every call of predict returns a verdict, also when the classifier
\* fails.
C8_AlwaysAVerdict == response.kind # "error"

\* C9: two calls of predict with the same message and the same headers return the
\* same verdict, whatever was scored before or between them.
C9_SameInputSameVerdict ==
  \A i \in 1..Len(calls), j \in 1..Len(calls) :
    (calls[i].message = calls[j].message /\ calls[i].headers = calls[j].headers)
    => calls[i].verdict = calls[j].verdict

\* C9 witness: the same request scored twice, after a spam verdict for another one
C9_Witness ==
  /\ Len(calls) = 3
  /\ calls[1].verdict.prediction = "Spam"
  /\ calls[2].message # calls[1].message
  /\ calls[2].verdict.prediction = "Not Spam"
  /\ calls[3].message = calls[2].message
  /\ calls[3].headers = calls[2].headers

\* C10 as stated: apply_allowlist subtracts 0.1, floored at 0.0, exactly when the
\* from_domain that parse_auth_headers extracts is an allowlisted domain or a
\* subdomain of one, and returns the probability unchanged otherwise.
C10_AttenuatesIffFromDomainAllowlisted ==
  ret.kind = "apply_allowlist" =>
    LET from_domain == parse_auth_headers(arg.headers_text).from_domain
        listed == \E d \in ALLOWLIST_DOMAINS :
                    \/ from_domain = d
                    \/ /\ Len(from_domain) > Len(d) + 1
                       /\ SubSeq(from_domain, Len(from_domain) - Len(d),
                                 Len(from_domain)) = <<".">> \o d
    IN ret.value = IF listed THEN Max(0, arg.spam_score - P(10)) ELSE arg.spam_score

InUnit(x) == 0 <= x /\ x <= One

\* C11: in every scoring call the URL risk, before and after the homograph risk is
\* added, the header risk, the phrase score, the blended probability, the
\* probability after the overrides and the one after the allowlist are in [0,1].
C11_ScoresInUnitInterval ==
  computed.kind = "score" =>
    /\ InUnit(computed.lstm_out.spam_prob)
    /\ InUnit(computed.url_risk)
    /\ InUnit(computed.url_risk_score)
    /\ InUnit(computed.header_risk)
    /\ InUnit(computed.phrase_score)
    /\ InUnit(computed.blended)
    /\ InUnit(computed.overridden)
    /\ InUnit(computed.spam_prob)

\* C11 witness: five URLs of risk 0.20 with a punycode first host, five phishing
\* words and three failed checks: the sums pass 1.0 and the values are 1.0
C11_Witness ==
  /\ computed.kind = "score"
  /\ computed.n_findings = 5
  /\ computed.url_risk = One
  /\ computed.url_risk_score = One
  /\ computed.phrase_score = One
  /\ computed.header_risk = One

\* the risk the specification gives one finding
SaysFindingRisk(f) ==
    (IF f.is_suspicious_tld THEN 15 ELSE 0)
  + (IF f.has_ip_host THEN 10 ELSE 0)
  + (IF f.is_punycode THEN 5 ELSE 0)
  + (IF f.path_depth > 4 THEN 5 ELSE 0)
  + (IF f.long_query THEN 5 ELSE 0)

\* the sum of the risks of the first n findings, in hundredths
RECURSIVE SaysRiskSum(_, _)
SaysRiskSum(fs, n) ==
  IF n = 0 THEN 0 ELSE SaysRiskSum(fs, n - 1) + SaysFindingRisk(fs[n])

\* C12: compute_url_risk is min(1.0, the sum over the findings of 0.15 for a
\* suspicious TLD, 0.10 for an IP host, 0.05 for punycode, 0.05 for a path depth
\* over 4 and 0.05 for a long query); the one URL http://192.168.1.1/a/b/c/d/e?x=
\* with a query of over 80 characters is analysed as IP host, path depth 5, long
\* query, no suspicious TLD, no punycode, and its risk is 0.20.
C12_RiskIsCappedSum ==
  /\ ret.kind = "compute_url_risk" =>
        ret.value = P(Min(100, SaysRiskSum(arg.url_findings, Len(arg.url_findings))))
  /\ ret.kind = "url_intel" =>
        ret.value.url_risk_score =
          P(Min(100, SaysRiskSum(ret.value.url_findings, Len(ret.value.url_findings))))
  /\ (ret.kind = "url_intel" /\ arg.urls = <<UrlIp>>) =>
        /\ Len(ret.value.url_findings) = 1
        /\ ret.value.url_findings[1].has_ip_host
        /\ ret.value.url_findings[1].path_depth = 5
        /\ ret.value.url_findings[1].long_query
        /\ ~ret.value.url_findings[1].is_suspicious_tld
        /\ ~ret.value.url_findings[1].is_punycode
        /\ ret.value.url_risk_score = P(20)

\* C12 witness: the URL of the scenario has been analysed and has risk 0.20
C12_Witness ==
  /\ ret.kind = "url_intel"
  /\ arg.urls = <<UrlIp>>
  /\ ret.value.url_risk_score = P(20)

\* the finding of one URL analysed on its own
AloneFinding(url) == analyze_urls(<<url>>)[1]

\* C17: analyze_urls returns min(n, 25) findings for n URLs, the i-th describing
\* the i-th URL, duplicates kept; the URLs after the 25th add nothing to the URL
\* risk or to hasRiskyUrl.
C17_FirstTwentyFiveInOrder ==
  ret.kind = "url_intel" =>
    LET urls  == arg.urls
        fs    == ret.value.url_findings
        kept  == Min(Len(urls), 25)
        first == [i \in 1..kept |-> AloneFinding(urls[i])]
    IN /\ Len(fs) = kept
       /\ \A i \in 1..Len(fs) : i <= Len(urls) /\ fs[i].url = urls[i]
       /\ fs = first
       /\ ret.value.url_risk_score = P(Min(100, SaysRiskSum(first, kept)))
       /\ ret.value.has_risky_url = SaysHasRiskyUrl(first)

\* C17 witness: 27 URLs, the first 25 the same harmless one, then two with an IP
\* host: 25 findings, no risk, no risky URL
C17_Witness ==
  /\ ret.kind = "url_intel"
  /\ Len(arg.urls) = 27
  /\ arg.urls[25] = UrlPlain
  /\ arg.urls[26] = UrlIp
  /\ arg.urls[27] = UrlIp
  /\ Len(ret.value.url_findings) = 25
  /\ ret.value.url_risk_score = 0
  /\ ~ret.value.has_risky_url

\* the header lines of a block: the unfolded lines with a colon
SaysHeaderLines(text) == SelectSeq(_unfold_headers(text), LAMBDA l : IndexOf(l, ":") # 0)

\* the values of every occurrence of a header name, in order of appearance
SaysValues(text, key) ==
  LET named == SelectSeq(SaysHeaderLines(text),
                         LAMBDA l : Lower(Strip(SubSeq(l, 1, IndexOf(l, ":") - 1))) = key)
  IN [i \in 1..Len(named) |->
        Strip(SubSeq(named[i], IndexOf(named[i], ":") + 1, Len(named[i])))]

SaysVerdictOf(word) ==
  IF word \in {"pass", "bestguesspass"} THEN "pass"
  ELSE IF word \in {"fail", "permerror"} THEN "fail"
  ELSE "unknown"

\* stage 1: the first name=value of Authentication-Results, then of
\* ARC-Authentication-Results
SaysAuthStage(name, text) ==
  LET joined == Join(SaysValues(text, <<"authentication-results">>), <<SP>>) \o <<SP>>
                \o Join(SaysValues(text, <<"arc-authentication-results">>), <<SP>>)
      m == Search(AuthRe(name), joined)
  IN IF m.ok THEN SaysVerdictOf(LowerTok(m.caps[1][1])) ELSE "unknown"

\* stage 2, for spf: the word pass or fail in the Received-SPF values
SaysReceivedStage(text) ==
  LET words == <<SP>> \o Lower(Join(SaysValues(text, <<"received-spf">>), <<SP>>)) \o <<SP>>
  IN IF Contains(words, <<SP, "pass", SP>>) THEN "pass"
     ELSE IF Contains(words, <<SP, "fail", SP>>) THEN "fail"
     ELSE "unknown"

\* stage 3: name=pass or name=fail anywhere in a header line
SaysFlatStage(name, text) ==
  LET lines == SaysHeaderLines(text)
      has(v) == \E i \in 1..Len(lines) : Contains(Lower(lines[i]), <<name, "=", v>>)
  IN IF has("pass") THEN "pass" ELSE IF has("fail") THEN "fail" ELSE "unknown"

\* the verdict of the earliest stage that resolves to pass or fail
RECURSIVE SaysEarliest(_)
SaysEarliest(stages) ==
  IF stages = <<>> THEN "unknown"
  ELSE IF Head(stages) \in {"pass", "fail"} THEN Head(stages)
  ELSE SaysEarliest(Tail(stages))

\* C13: each of spf, dkim and dmarc is the verdict of the earliest stage that
\* resolves it to pass or fail: Authentication-Results with
\* ARC-Authentication-Results, then Received-SPF for spf only, then the flat scan
\* of all headers; every occurrence of a repeated header name takes part.
C13_EarliestStageDecides ==
  (ret.kind = "parse_auth_headers" /\ arg.headers_text # <<>>) =>
    LET text == arg.headers_text
    IN /\ ret.value.spf = SaysEarliest(<<SaysAuthStage("spf", text),
                                         SaysReceivedStage(text),
                                         SaysFlatStage("spf", text)>>)
       /\ ret.value.dkim = SaysEarliest(<<SaysAuthStage("dkim", text),
                                          SaysFlatStage("dkim", text)>>)
       /\ ret.value.dmarc = SaysEarliest(<<SaysAuthStage("dmarc", text),
                                           SaysFlatStage("dmarc", text)>>)

\* C13 witness: Authentication-Results says dkim = Fail and SPF=softfail, a later
\* header holds dkim=pass and spf=fail: dkim stays fail, spf comes from the scan
C13_Witness ==
  /\ ret.kind = "parse_auth_headers"
  /\ arg.headers_text = Join(<<AuthSoft, NoteFlat>>, <<NL>>)
  /\ SaysAuthStage("dkim", arg.headers_text) = "fail"
  /\ SaysFlatStage("dkim", arg.headers_text) = "pass"
  /\ ret.value.dkim = "fail"
  /\ SaysAuthStage("spf", arg.headers_text) = "unknown"
  /\ ret.value.spf = "fail"

SaysFloor ==
  IF computed.header_fail /\ computed.has_risky_url THEN P(90)
  ELSE IF computed.header_fail
          \/ (computed.has_risky_url /\ computed.url_risk_score > P(40))
       THEN P(75)
       ELSE 0

\* the allowlist attenuates with these headers
SaysAttenuated == apply_allowlist(One, computed.raw_headers) # One

\* C18: the stages act in the order blend, overrides, allowlist, threshold: the
\* attenuation is taken from the probability after the overrides, and the label
\* and both percentages come from the attenuated probability, so an allowlisted
\* sender whose message triggers an override ends at max(blend, floor) - 0.1.
C18_StagesInOrder ==
  computed.kind = "score" =>
    LET post == Max(computed.blended, SaysFloor)
    IN /\ computed.overridden = post
       /\ computed.spam_prob = IF SaysAttenuated THEN Max(0, post - P(10)) ELSE post
       /\ response.verdict.prediction = "Spam" <=> computed.spam_prob > P(45)
       /\ response.verdict.spam = RoundPct(computed.spam_prob)
       /\ response.verdict.notspam = RoundPct(One - computed.spam_prob)

\* C18 witness: a blend under 0.45 raised to 0.75 by a header failure, attenuated
\* to 0.65 for an allowlisted sender: Spam at 65.00 to 35.00
C18_Witness ==
  /\ computed.kind = "score"
  /\ SaysAttenuated
  /\ computed.blended < P(45)
  /\ computed.overridden = P(75)
  /\ computed.spam_prob = P(65)
  /\ response.verdict.prediction = "Spam"
  /\ response.verdict.spam = 6500
  /\ response.verdict.notspam = 3500

SaysAllPass(hv) == hv.present /\ hv.spf = "pass" /\ hv.dkim = "pass" /\ hv.dmarc = "pass"

\* C19: with headers present and spf = dkim = dmarc = pass the blended probability
\* is at most 0.41, and a label of Spam implies a risky URL with a URL risk over
\* 0.40.
C19_AllPassSpamOnlyByUrl ==
  (computed.kind = "score" /\ SaysAllPass(response.header_findings)) =>
    /\ computed.blended <= P(41)
    /\ response.verdict.prediction = "Spam" =>
         (computed.has_risky_url /\ computed.url_risk_score > P(40))

\* C19 witness: all three pass, the classifier at 1.0, the URL risk and the phrase
\* score at 1.0 and a display-name mismatch: the blend is 0.41 and the label is
\* Spam through the URL override
C19_Witness ==
  /\ computed.kind = "score"
  /\ SaysAllPass(response.header_findings)
  /\ computed.lstm_out.spam_prob = One
  /\ computed.phrase_score = One
  /\ computed.display_mismatch = P(60)
  /\ computed.blended = P(41)
  /\ computed.has_risky_url
  /\ computed.url_risk_score > P(40)
  /\ response.verdict.prediction = "Spam"

\* how many times whois.whois was called with a domain
QueriesFor(d) == Cardinality({i \in 1..Len(queries) : queries[i] = d})

\* the calls that returned after looking a domain up
Completed(d) == {i \in 1..Len(returned) : returned[i].registrable = d}

\* C15 as stated: under every interleaving of concurrent calls for hosts of one
\* registrable domain, at most one whois query is issued for the domain and all
\* callers get the same age.
C15_SingleFlight ==
  /\ \A i \in 1..Len(queries) : QueriesFor(queries[i]) <= 1
  /\ \A i \in 1..Len(returned), j \in 1..Len(returned) :
       (returned[i].registrable # None
        /\ returned[i].registrable = returned[j].registrable)
       => returned[i].age_days = returned[j].age_days

\* C16: with the calls one after the other, at most one whois query is issued per
\* registrable domain; once the first call for a domain has returned, with an age
\* or with None for no creation date or an error, every later call for a host of
\* that domain returns the stored value without a query, and the entry of the
\* cache stays what the first call stored.
C16_MemoizedPerDomain ==
  /\ \A i \in 1..Len(queries) : QueriesFor(queries[i]) <= 1
  /\ \A i \in 1..Len(returned) :
       returned[i].registrable # None =>
         LET d     == returned[i].registrable
             first == CHOOSE j \in Completed(d) : \A k \in Completed(d) : j <= k
         IN /\ returned[first].queried
            /\ i # first => ~returned[i].queried
            /\ returned[i].age_days = returned[first].age_days
            /\ d \in DOMAIN _WHOIS_CACHE
            /\ _WHOIS_CACHE[d].age_days = returned[first].age_days

\* C16 witness: the lookup for a host raised and None was stored; a call for
\* another host of the same domain returned None without a query
C16_Witness ==
  /\ Len(returned) = 2
  /\ Len(queries) = 1
  /\ returned[1].queried
  /\ returned[1].age_days = PyNone
  /\ returned[2].host # returned[1].host
  /\ returned[2].registrable = returned[1].registrable
  /\ ~returned[2].queried
  /\ returned[2].age_days = PyNone

====
